---- MODULE Spec2Model ----
(***************************************************************************)
(* Model of the mock-server registry of pact_mock_server:                  *)
(* rust/pact_mock_server/src/server_manager.rs (ServerManager).            *)
(*                                                                         *)
(* The registry is driven by one calling thread (every mutating operation  *)
(* takes &mut self), so at most one registry call is in progress; `call`   *)
(* is that call.  The serving tasks and their request handlers run on the  *)
(* runtime concurrently with the caller.  A call runs on in one step as    *)
(* long as the locks it takes are free and is split only where the caller  *)
(* blocks: before a std::sync::Mutex another party holds, and at the join  *)
(* of a task handle.  The state in which call.pc = "done" is the instant   *)
(* at which the call returns call.ret.                                     *)
(*                                                                         *)
(* MockServer (mock_server.rs) is outside the sources at hand; its         *)
(* constructor, its shutdown() and the serving task are modelled from the  *)
(* specification's lifecycle contract.                                     *)
(***************************************************************************)
EXTENDS Integers, Sequences, FiniteSets, TLC

\* ---- bounds of the model ----
\* number of requests that arrive, over all servers
MaxReq == 1
\* number of requests that arrive at the server of ServerSpec
MaxLog == 3

\* the ids callers use, in the order of String's Ord
IdOrder == <<"a", "b">>
Ids == {IdOrder[n] : n \in DOMAIN IdOrder}
Rank(id) == CHOOSE n \in DOMAIN IdOrder : IdOrder[n] = id
\* concrete ports are 1..MaxPort, one for each id that can be registered; 0 is
\* "let the OS choose"
MaxPort == Len(IdOrder)
Ports == 1..MaxPort
ReqPorts == 0..MaxPort
\* the ports start calls ask for: an OS-assigned one, or a fixed one
StartPorts == {0, MaxPort}

VARIABLES
  mock_servers,  \* ServerManager.mock_servers: id -> ServerEntry (the MockServer and its task)
  entry,         \* the entry a shutdown call has removed from the map and owns
  detached,      \* ports of the running tasks whose JoinHandle was dropped
  arrivals,      \* number of requests accepted so far
  started,       \* history: the registered ids in the order of their start calls
  call           \* the registry call in progress

vars == <<mock_servers, entry, detached, arrivals, started, call>>

\* ---- Option<T> ----
None == <<>>
Some(x) == <<x>>
\* Option<u16>::unwrap_or_default()
unwrap_or_default(o) == IF o = None THEN 0 ELSE o[1]

\* ---- BTreeMap<String, ServerEntry> ----
Keys == DOMAIN mock_servers

\* the least key of S in the order of the keys
MinOf(S) == CHOOSE x \in S : \A y \in S : Rank(x) <= Rank(y)

RECURSIVE Ascending(_)
Ascending(S) ==
  IF S = {} THEN <<>> ELSE <<MinOf(S)>> \o Ascending(S \ {MinOf(S)})

\* a map that iterated in insertion order instead
iter_in_start_order == started

\* BTreeMap::iter(), iter_mut(): the keys in ascending order
iter == Ascending(Keys)

\* an insert that writes the value under every key of the map
insert_over_all(m, k, v) == [x \in (DOMAIN m) \cup {k} |-> v]

\* BTreeMap::insert: a present key is overwritten
insert(m, k, v) == [x \in (DOMAIN m) \cup {k} |-> IF x = k THEN v ELSE m[x]]

\* a removal that takes every key up to k with it
remove_through(m, k) == [x \in {y \in DOMAIN m : Rank(y) > Rank(k)} |-> m[x]]

\* BTreeMap::remove
remove(m, k) == [x \in (DOMAIN m) \ {k} |-> m[x]]

\* ---- MockServer and its serving task ----
Alive(ms) == ms.state \in {"Running", "ShuttingDown"}

\* ports on which a live listener is bound
BoundPorts ==
  {mock_servers[k].addr : k \in {x \in Keys : Alive(mock_servers[x])}}
  \cup (IF entry # None /\ Alive(entry[1]) THEN {entry[1].addr} ELSE {})
  \cup detached

\* The outcomes of MockServer::new(id, pact, addr, config): a bind error, or a
\* server bound at `addr` whose state holds the resolved port or no port.
MockServerNew(port) ==
  LET bindable == IF port = 0 THEN Ports \ BoundPorts ELSE {port} \ BoundPorts
  IN  {[ok |-> FALSE, port |-> None, addr |-> 0]}
      \cup {[ok |-> TRUE, port |-> Some(a), addr |-> a] : a \in bindable}
      \cup {[ok |-> TRUE, port |-> None, addr |-> a] : a \in bindable}

\* MockServer::new_tls: as MockServer::new; invalid TLS material is one more error
MockServerNewTls(port) == MockServerNew(port)

\* a serving task that keeps the server's lock while it waits for connections
NewServerHoldingLock(id, o) ==
  [id |-> id, port |-> o.port, addr |-> o.addr, state |-> "Running",
   shutdown_tx |-> TRUE, signal |-> FALSE, matches |-> <<>>, requests |-> 0,
   inflight |-> {}, lock |-> "task", recording |-> 0]

\* the MockServer state built by the constructor, and its spawned task
NewServer(id, o) ==
  [id |-> id, port |-> o.port, addr |-> o.addr,
   state |-> "Running",
   shutdown_tx |-> TRUE,    \* the sender of the shutdown channel is still there
   signal |-> FALSE,        \* a cancellation signal has been sent
   matches |-> <<>>,        \* the match log
   requests |-> 0,          \* metrics: requests served
   inflight |-> {},         \* accepted requests whose verdict is not recorded yet
   lock |-> "free",         \* the Mutex around this MockServer
   recording |-> 0]         \* the request whose handler holds the lock

\* MockServer::shutdown(): takes the sender of the shutdown channel and sends
\* the cancellation signal; an error if the sender was taken before or the
\* receiving task is gone
shutdown(ms) ==
  IF ~ms.shutdown_tx
  THEN [ok |-> FALSE, ms |-> ms]
  ELSE IF ~Alive(ms)
       THEN [ok |-> FALSE, ms |-> [ms EXCEPT !.shutdown_tx = FALSE]]
       ELSE [ok |-> TRUE, ms |-> [ms EXCEPT !.shutdown_tx = FALSE, !.signal = TRUE]]

\* the projection a caller passes to the queries, f(&MockServer) -> R: here
\* |ms| (ms.id.clone(), ms.matches())
Projections == {"id_matches"}
\* and to find_mock_server_by_port_mut, f(&mut MockServer) -> R: the one the
\* test passes, |mock_server| mock_server.matches()
MutProjections == {"matches"}

\* the value f returns
Apply(f, ms) ==
  CASE f = "id_matches" -> [id |-> ms.id, matches |-> ms.matches]
    [] f = "matches" -> ms.matches

\* a drop of the JoinHandle that would end the task
DroppedAborts(e) == {}

\* dropping a ServerEntry drops its JoinHandle: a task still alive is detached
Dropped(e) == IF e # None /\ Alive(e[1]) THEN {e[1].addr} ELSE {}

\* ---- the calling thread ----
Idle == call.pc = "idle"

NoCall == [op |-> "none", pc |-> "idle", id |-> "", port |-> 0, f |-> "none",
           i |-> 0, pre |-> << >>, spawned |-> 0,
           ret |-> <<>>, events |-> <<>>]

\* what the map holds: under each key the handle of a MockServer and of its
\* task (the state behind the handle is not part of the map)
Handles(m) == [k \in DOMAIN m |-> [id |-> m[k].id, port |-> m[k].port, addr |-> m[k].addr]]

Begin(op, id, port, f) ==
  [NoCall EXCEPT !.op = op, !.id = id, !.port = port, !.f = f,
                 !.pre = Handles(mock_servers)]

\* the call returns r to the caller
Return(c, r) == [c EXCEPT !.pc = "done", !.ret = r]

Init ==
  /\ mock_servers = << >>
  /\ entry = None
  /\ detached = {}
  /\ arrivals = 0
  /\ started = <<>>
  /\ call = NoCall

\* ---- start ----
\* SocketAddr::new(ip, port)
SocketAddr(port) == [ip |-> "0.0.0.0", port |-> port]

\* a start that files every server under the first id
start_mock_server_under_first_key(id, addr, o) ==
  IF ~o.ok
  THEN [map |-> mock_servers, spawned |-> 0, ret |-> <<"Err">>]
  ELSE [map |-> insert(mock_servers, IdOrder[1], NewServer(id, o)),
        spawned |-> 1,
        ret |-> IF o.port # None THEN <<"Ok", SocketAddr(o.port[1])>>
                                 ELSE <<"Ok", addr>>]

\* start_mock_server_with_addr: the map, the tasks spawned and the result
\* after the call, for constructor outcome o
start_mock_server_with_addr(id, addr, o) ==
  IF ~o.ok
  THEN [map |-> mock_servers, spawned |-> 0, ret |-> <<"Err">>]
  ELSE [map |-> insert(mock_servers, id, NewServer(id, o)),
        spawned |-> 1,
        ret |-> IF o.port # None THEN <<"Ok", SocketAddr(o.port[1])>>
                                 ELSE <<"Ok", addr>>]

\* start_tls_mock_server_with_addr
start_tls_mock_server_with_addr(id, addr, o) ==
  IF ~o.ok
  THEN [map |-> mock_servers, spawned |-> 0, ret |-> <<"Err">>]
  ELSE [map |-> insert(mock_servers, id, NewServer(id, o)),
        spawned |-> 1,
        ret |-> IF o.port # None THEN <<"Ok", SocketAddr(o.port[1])>>
                                 ELSE <<"Ok", addr>>]

\* Result::map(|addr| addr.port())
MapToPort(r) ==
  [r EXCEPT !.ret = IF r.ret[1] = "Ok" THEN <<"Ok", r.ret[2].port>> ELSE r.ret]

\* start_mock_server
start_mock_server(id, port, o) ==
  MapToPort(start_mock_server_with_addr(id, SocketAddr(port), o))

\* start_tls_mock_server
start_tls_mock_server(id, port, o) ==
  MapToPort(start_tls_mock_server_with_addr(id, SocketAddr(port), o))

\* start_mock_server_nonblocking
start_mock_server_nonblocking(id, port, o) ==
  IF ~o.ok
  THEN [map |-> mock_servers, spawned |-> 0, ret |-> <<"Err">>]
  ELSE [map |-> insert(mock_servers, id, NewServer(id, o)),
        spawned |-> 1,
        ret |-> IF o.port # None THEN <<"Ok", o.port[1]>> ELSE <<"Err">>]

\* a start call (call.op = "start" for each of the variants): it never blocks
\* on a lock another party holds (the lock it takes is the new server's, before
\* the task is spawned), so it is one step; the entry that insert() replaces is
\* dropped
Started(id, port, r) ==
  /\ mock_servers' = r.map
  /\ started' = IF r.spawned = 1
                THEN Append(SelectSeq(started, LAMBDA x : x # id), id)
                ELSE started
  /\ detached' = detached \cup
       (IF r.spawned = 1 /\ id \in Keys THEN Dropped(Some(mock_servers[id])) ELSE {})
  /\ call' = Return([Begin("start", id, port, "none") EXCEPT !.spawned = r.spawned], r.ret)
  /\ UNCHANGED <<entry, arrivals>>

StartMockServer(id, port) ==
  /\ Idle
  /\ \E o \in MockServerNew(port) :
       Started(id, port, start_mock_server(id, port, o))

StartTlsMockServer(id, port) ==
  /\ Idle
  /\ \E o \in MockServerNewTls(port) :
       Started(id, port, start_tls_mock_server(id, port, o))

StartMockServerNonblocking(id, port) ==
  /\ Idle
  /\ \E o \in MockServerNew(port) :
       Started(id, port, start_mock_server_nonblocking(id, port, o))

\* ---- shutdown ----
\* a join that resolves as soon as the task has seen the signal
JoinReadyOnSignal(ms) == ms.state \in {"ShuttingDown", "Stopped"}

\* block_on(entry.join_handle) resolves Ok once the task has exited
JoinReady(ms) == ms.state = "Stopped"
\* ... and Err(JoinError) when the task panicked
JoinFailed(ms) == ms.state = "Panicked"

\* entry.mock_server.lock().unwrap(): the caller holds the guard of this server
lock(ms) == [ms EXCEPT !.lock = "registry"]

\* a guard that is never released
keep_guard(ms) == ms

\* the MutexGuard goes out of scope: at the end of the find/map closure, of the
\* statement that applies f, of the block that holds `ms`
drop_guard(ms) == [ms EXCEPT !.lock = "free"]

\* the map after the caller has locked, read and released the entries keyed in S
Visited(m, S) == [k \in DOMAIN m |-> IF k \in S THEN drop_guard(lock(m[k])) ELSE m[k]]

\* the keys of the entries i..n of the iteration
ScanKeys(i, n) == {iter[j] : j \in i..n}

\* let mut ms = entry.mock_server.lock().unwrap(); match ms.shutdown() {..}
\* for the removed entry e: on Ok the guard `ms` stays alive over the join; on
\* Err the guard is dropped and false is returned.
ShutdownEntry(c, e) ==
  IF e.lock # "free"
  THEN [call |-> [c EXCEPT !.pc = "lock"], entry |-> Some(e)]
  ELSE LET r == shutdown(e)
       IN  IF r.ok
           THEN [call |-> [c EXCEPT !.pc = "join", !.events = Append(@, "signal")],
                 entry |-> Some(lock(r.ms))]
           ELSE [call |-> Return([c EXCEPT !.events = Append(@, "signal_err")], FALSE),
                 entry |-> Some(drop_guard(lock(r.ms)))]

\* self.runtime.block_on(entry.join_handle).unwrap(); true
JoinEntry(c, e) ==
  IF JoinReady(e)
  THEN Return([c EXCEPT !.events = Append(@, "join")], TRUE)
  ELSE [c EXCEPT !.pc = "panicked"]

\* shutdown_mock_server_by_id: self.mock_servers.remove(&id), then the entry
shutdown_mock_server_by_id(c) ==
  IF c.id \in Keys
  THEN LET r == ShutdownEntry([c EXCEPT !.events = <<"remove">>], mock_servers[c.id])
       IN  [map |-> remove(mock_servers, c.id), entry |-> r.entry, call |-> r.call]
  ELSE [map |-> mock_servers, entry |-> entry, call |-> Return(c, FALSE)]

ShutdownByIdCall(id) ==
  /\ Idle
  /\ LET r == shutdown_mock_server_by_id(
                Begin("shutdown_mock_server_by_id", id, 0, "none"))
     IN  /\ mock_servers' = r.map
         /\ started' = SelectSeq(started, LAMBDA x : x \in DOMAIN r.map)
         /\ entry' = r.entry
         /\ call' = r.call
  /\ UNCHANGED <<detached, arrivals>>

\* the caller was blocked on the entry's lock
ShutdownByIdLock ==
  /\ call.op = "shutdown_mock_server_by_id" /\ call.pc = "lock"
  /\ entry[1].lock = "free"
  /\ call' = ShutdownEntry(call, entry[1]).call
  /\ entry' = ShutdownEntry(call, entry[1]).entry
  /\ UNCHANGED <<mock_servers, detached, arrivals, started>>

\* the join ends: the guard is dropped, true is returned (or unwrap panics)
ShutdownByIdJoin ==
  /\ call.op = "shutdown_mock_server_by_id" /\ call.pc = "join"
  /\ JoinReady(entry[1]) \/ JoinFailed(entry[1])
  /\ call' = JoinEntry(call, entry[1])
  /\ entry' = Some(drop_guard(entry[1]))
  /\ UNCHANGED <<mock_servers, detached, arrivals, started>>

\* iter().find(|(_id, entry)| entry.mock_server.lock().unwrap()
\*   .port.unwrap_or_default() == port): the predicate on one entry
PortMatches(ms, port) == unwrap_or_default(ms.port) = port

\* a find(..) that takes the first entry whatever its port
FindFirst(i, port) ==
  IF i > Len(iter)
  THEN [kind |-> "none", i |-> i]
  ELSE IF mock_servers[iter[i]].lock # "free"
       THEN [kind |-> "blocked", i |-> i]
       ELSE [kind |-> "found", i |-> i]

\* find(..) from the i-th entry on: the entry found, or none, or the entry at
\* whose lock the caller blocks; each lock is released after the comparison
RECURSIVE FindFrom(_, _)
FindFrom(i, port) ==
  IF i > Len(iter)
  THEN [kind |-> "none", i |-> i]
  ELSE IF mock_servers[iter[i]].lock # "free"
       THEN [kind |-> "blocked", i |-> i]
       ELSE IF PortMatches(mock_servers[iter[i]], port)
            THEN [kind |-> "found", i |-> i]
            ELSE FindFrom(i + 1, port)

\* shutdown_mock_server_by_port with its scan at entry i.  On a match the id is
\* read under the entry's lock (.map(..id.clone())), the entry with that key is
\* removed, and shut down as in shutdown_mock_server_by_id.
shutdown_mock_server_by_port(c, i) ==
  LET found == FindFrom(i, c.port)
      id == mock_servers[iter[found.i]].id
      seen == Visited(mock_servers, ScanKeys(i, found.i))
  IN  CASE found.kind = "blocked" ->
             [map |-> Visited(mock_servers, ScanKeys(i, found.i - 1)), entry |-> entry,
              call |-> [c EXCEPT !.pc = "scan", !.i = found.i]]
        [] found.kind = "none" ->
             [map |-> Visited(mock_servers, ScanKeys(i, Len(iter))), entry |-> entry,
              call |-> Return(c, FALSE)]
        [] found.kind = "found" ->
             IF id \in Keys
             THEN LET r == ShutdownEntry([c EXCEPT !.id = id, !.i = found.i,
                                             !.events = <<"remove">>], seen[id])
                  IN  [map |-> remove(seen, id), entry |-> r.entry, call |-> r.call]
             ELSE [map |-> seen, entry |-> entry, call |-> Return(c, FALSE)]

ShutdownByPortCall(port) ==
  /\ Idle
  /\ LET r == shutdown_mock_server_by_port(
                Begin("shutdown_mock_server_by_port", "", port, "none"), 1)
     IN  /\ mock_servers' = r.map
         /\ started' = SelectSeq(started, LAMBDA x : x \in DOMAIN r.map)
         /\ entry' = r.entry
         /\ call' = r.call
  /\ UNCHANGED <<detached, arrivals>>

\* the caller was blocked on the lock of the i-th entry of the scan
ShutdownByPortScan ==
  /\ call.op = "shutdown_mock_server_by_port" /\ call.pc = "scan"
  /\ mock_servers[iter[call.i]].lock = "free"
  /\ LET r == shutdown_mock_server_by_port(call, call.i)
     IN  /\ mock_servers' = r.map
         /\ started' = SelectSeq(started, LAMBDA x : x \in DOMAIN r.map)
         /\ entry' = r.entry
         /\ call' = r.call
  /\ UNCHANGED <<detached, arrivals>>

ShutdownByPortJoin ==
  /\ call.op = "shutdown_mock_server_by_port" /\ call.pc = "join"
  /\ JoinReady(entry[1]) \/ JoinFailed(entry[1])
  /\ call' = JoinEntry(call, entry[1])
  /\ entry' = Some(drop_guard(entry[1]))
  /\ UNCHANGED <<mock_servers, detached, arrivals, started>>

\* ---- queries ----
\* find_mock_server_by_id: self.mock_servers.get(id), then
\* Some(f(&entry.mock_server.lock().unwrap()))
find_mock_server_by_id(c) ==
  IF c.id \notin Keys
  THEN Return(c, None)
  ELSE IF mock_servers[c.id].lock # "free"
       THEN [c EXCEPT !.pc = "apply"]
       ELSE Return(c, Some(Apply(c.f, mock_servers[c.id])))

\* the entry whose guard a find_mock_server_by_id that went through has held
Got(c) == IF c.pc = "done" THEN {c.id} \cap Keys ELSE {}

FindByIdCall(id, f) ==
  /\ Idle
  /\ call' = find_mock_server_by_id(Begin("find_mock_server_by_id", id, 0, f))
  /\ mock_servers' = Visited(mock_servers, Got(call'))
  /\ UNCHANGED <<entry, detached, arrivals, started>>

\* the caller was blocked on the entry's lock
FindByIdApply ==
  /\ call.op = "find_mock_server_by_id" /\ call.pc = "apply"
  /\ mock_servers[call.id].lock = "free"
  /\ call' = find_mock_server_by_id(call)
  /\ mock_servers' = Visited(mock_servers, Got(call'))
  /\ UNCHANGED <<entry, detached, arrivals, started>>

\* find_mock_server_by_port_mut with its scan at entry i: on a match
\* Some(f(&mut entry.mock_server.lock().unwrap()))
find_mock_server_by_port_mut(c, i) ==
  LET found == FindFrom(i, c.port)
      k == iter[found.i]
  IN  CASE found.kind = "blocked" ->
             [map |-> Visited(mock_servers, ScanKeys(i, found.i - 1)),
              call |-> [c EXCEPT !.pc = "scan", !.i = found.i]]
        [] found.kind = "none" ->
             [map |-> Visited(mock_servers, ScanKeys(i, Len(iter))),
              call |-> Return(c, None)]
        [] found.kind = "found" ->
             [map |-> Visited(mock_servers, ScanKeys(i, found.i)),
              call |-> Return([c EXCEPT !.i = found.i, !.id = k],
                              Some(Apply(c.f, mock_servers[k])))]

FindByPortMutCall(port, f) ==
  /\ Idle
  /\ LET r == find_mock_server_by_port_mut(
                Begin("find_mock_server_by_port_mut", "", port, f), 1)
     IN  /\ mock_servers' = r.map
         /\ call' = r.call
  /\ UNCHANGED <<entry, detached, arrivals, started>>

\* the caller was blocked on the lock of the i-th entry of the scan
FindByPortMutScan ==
  /\ call.op = "find_mock_server_by_port_mut" /\ call.pc = "scan"
  /\ mock_servers[iter[call.i]].lock = "free"
  /\ LET r == find_mock_server_by_port_mut(call, call.i)
     IN  /\ mock_servers' = r.map
         /\ call' = r.call
  /\ UNCHANGED <<entry, detached, arrivals, started>>

\* map_mock_servers from the i-th entry on, with the results pushed so far
RECURSIVE map_mock_servers(_, _, _)
map_mock_servers(c, i, results) ==
  IF i > Len(iter)
  THEN Return(c, results)
  ELSE IF mock_servers[iter[i]].lock # "free"
       THEN [c EXCEPT !.pc = "each", !.i = i, !.ret = results]
       ELSE map_mock_servers(c, i + 1,
              Append(results, Apply(c.f, mock_servers[iter[i]])))

MapMockServersCall(f) ==
  /\ Idle
  /\ call' = map_mock_servers(Begin("map_mock_servers", "", 0, f), 1, <<>>)
  /\ mock_servers' = Visited(mock_servers, ScanKeys(1, Len(call'.ret)))
  /\ UNCHANGED <<entry, detached, arrivals, started>>

\* the caller was blocked on the lock of the i-th entry of the loop
MapMockServersEach ==
  /\ call.op = "map_mock_servers" /\ call.pc = "each"
  /\ mock_servers[iter[call.i]].lock = "free"
  /\ call' = map_mock_servers(call, call.i, call.ret)
  /\ mock_servers' = Visited(mock_servers, ScanKeys(call.i, Len(call'.ret)))
  /\ UNCHANGED <<entry, detached, arrivals, started>>

\* the caller has the result of the call and goes on; the entry a shutdown had
\* removed is dropped at the end of the call
Returned ==
  /\ call.pc = "done"
  /\ call' = NoCall
  /\ entry' = None
  /\ detached' = detached \cup Dropped(entry)
  /\ UNCHANGED <<mock_servers, arrivals, started>>

Registry ==
  \/ \E id \in Ids, port \in StartPorts : StartMockServer(id, port)
  \/ \E id \in Ids, port \in StartPorts : StartTlsMockServer(id, port)
  \/ \E id \in Ids, port \in StartPorts : StartMockServerNonblocking(id, port)
  \/ \E id \in Ids : ShutdownByIdCall(id)
  \/ ShutdownByIdLock
  \/ ShutdownByIdJoin
  \/ \E port \in ReqPorts : ShutdownByPortCall(port)
  \/ ShutdownByPortScan
  \/ ShutdownByPortJoin
  \/ \E id \in Ids, f \in Projections : FindByIdCall(id, f)
  \/ FindByIdApply
  \/ \E port \in ReqPorts, f \in MutProjections : FindByPortMutCall(port, f)
  \/ FindByPortMutScan
  \/ \E f \in Projections : MapMockServersCall(f)
  \/ MapMockServersEach
  \/ Returned

\* ---- the serving task of a server and its request handlers ----
\* the servers whose task the registry still holds: those of the map, under
\* their key, and the one a shutdown call has removed
ENTRY == "entry"
Slots == Keys \cup (IF entry # None THEN {ENTRY} ELSE {})
Server(s) == IF s = ENTRY THEN entry[1] ELSE mock_servers[s]

\* the task of slot s, or a handler of it, changes the MockServer to ms
Update(s, ms) ==
  /\ IF s = ENTRY
     THEN entry' = Some(ms) /\ UNCHANGED mock_servers
     ELSE mock_servers' = [mock_servers EXCEPT ![s] = ms] /\ UNCHANGED entry
  /\ UNCHANGED <<detached, started, call>>

\* the accept loop takes a connection while Running, as long as fewer than
\* `bound` requests have arrived; the request is numbered in order of arrival
\* at this server and handed to a handler task of its own
Arrive(s, bound) ==
  /\ Server(s).state = "Running"
  /\ arrivals < bound
  /\ arrivals' = arrivals + 1
  /\ Update(s, [Server(s) EXCEPT !.inflight = @ \cup
         {Len(Server(s).matches) + Cardinality(Server(s).inflight) + 1}])

Accept(s) == Arrive(s, MaxReq)

\* a request handler takes the server's lock to record its verdict
HandlerLock(s, r) ==
  /\ r \in Server(s).inflight
  /\ Server(s).lock = "free"
  /\ Update(s, [Server(s) EXCEPT !.lock = "handler", !.recording = r])
  /\ UNCHANGED arrivals

\* the verdict is appended, the counters updated, the lock released
HandlerRecord(s) ==
  /\ Server(s).lock = "handler"
  /\ Update(s, [Server(s) EXCEPT !.matches = Append(@, Server(s).recording),
                                 !.requests = @ + 1,
                                 !.inflight = @ \ {Server(s).recording},
                                 !.lock = "free",
                                 !.recording = 0])
  /\ UNCHANGED arrivals

\* the shutdown listener receives the cancellation signal
TaskShuttingDown(s) ==
  /\ Server(s).state = "Running"
  /\ Server(s).signal
  /\ Update(s, [Server(s) EXCEPT !.state = "ShuttingDown"])
  /\ UNCHANGED arrivals

\* a task that exits on the signal without waiting for its requests
TaskStoppedUndrained(s) ==
  /\ Server(s).state = "ShuttingDown"
  /\ Update(s, [Server(s) EXCEPT !.state = "Stopped"])
  /\ UNCHANGED arrivals

\* once the in-flight requests are drained the task exits
TaskStopped(s) ==
  /\ Server(s).state = "ShuttingDown"
  /\ Server(s).inflight = {}
  /\ Update(s, [Server(s) EXCEPT !.state = "Stopped"])
  /\ UNCHANGED arrivals

\* the task terminates abnormally; the receiver of the shutdown channel is gone
TaskPanicked(s) ==
  /\ Alive(Server(s))
  /\ Update(s, [Server(s) EXCEPT !.state = "Panicked"])
  /\ UNCHANGED arrivals

\* a detached task terminates; its listener is closed
DetachedExits(p) ==
  /\ p \in detached
  /\ detached' = detached \ {p}
  /\ UNCHANGED <<mock_servers, entry, arrivals, started, call>>

\* the tasks of the runtime
Task ==
  /\ call.pc # "done"
  /\ \/ \E s \in Slots :
          \/ Accept(s)
          \/ \E r \in 1..MaxReq : HandlerLock(s, r)
          \/ HandlerRecord(s)
          \/ TaskShuttingDown(s)
          \/ TaskStopped(s)
          \/ TaskPanicked(s)
     \/ \E p \in Ports : DetachedExits(p)

Next == Registry \/ Task

Spec == Init /\ [][Next]_vars

\* ---- one server on its own ----
\* The state after start_mock_server("a", pact, MaxPort, config) has returned
\* Ok; from there the requests arrive at its task and the caller shuts it down.
ServerInit ==
  /\ mock_servers = [k \in {"a"} |->
                       NewServer("a", [port |-> Some(MaxPort), addr |-> MaxPort])]
  /\ entry = None
  /\ detached = {}
  /\ arrivals = 0
  /\ started = <<"a">>
  /\ call = NoCall

ServerTask ==
  /\ call.pc # "done"
  /\ \E s \in Slots :
        \/ Arrive(s, MaxLog)
        \/ \E r \in 1..MaxLog : HandlerLock(s, r)
        \/ HandlerRecord(s)
        \/ TaskShuttingDown(s)
        \/ TaskStopped(s)
        \/ TaskPanicked(s)

ServerNext ==
  \/ ServerTask
  \/ ShutdownByIdCall("a")
  \/ ShutdownByIdLock
  \/ ShutdownByIdJoin
  \/ Returned

ServerSpec == ServerInit /\ [][ServerNext]_vars

\* The scheduling the runtime and the caller give: a step of a serving task or
\* of a handler that stays possible is taken (the worker thread runs every
\* ready task), and a blocked registry call continues once what it waits for
\* is there.  Arrivals of requests and panics are not forced.
TaskProgress(s) ==
  /\ call.pc # "done"
  /\ s \in Slots
  /\ \/ \E r \in 1..MaxReq : HandlerLock(s, r)
     \/ HandlerRecord(s)
     \/ TaskShuttingDown(s)
     \/ TaskStopped(s)

Continue ==
  \/ ShutdownByIdLock \/ ShutdownByIdJoin
  \/ ShutdownByPortScan \/ ShutdownByPortJoin
  \/ FindByIdApply \/ FindByPortMutScan \/ MapMockServersEach

FairSpec ==
  /\ Spec
  /\ \A s \in Ids \cup {ENTRY} : WF_vars(TaskProgress(s))
  /\ WF_vars(Continue)

\* ---------------------------------------------------------------------------
\* Properties
\* ---------------------------------------------------------------------------
ShutdownOps == {"shutdown_mock_server_by_id", "shutdown_mock_server_by_port"}

Done(op) == call.pc = "done" /\ call.op = op

ShutdownDone == call.pc = "done" /\ call.op \in ShutdownOps

\* C1: when the signalling step of a shutdown fails, the shutdown returns false
\* and the registry map holds the same entries as before the call.
C1_FailedSignalLeavesMap ==
  (ShutdownDone /\ call.events # <<>> /\ call.events[Len(call.events)] = "signal_err")
    => (call.ret = FALSE /\ Handles(mock_servers) = call.pre)

\* C2: a shutdown call that has reached its target (it waits for the target's
\* lock or for the serving task to exit) eventually returns, requests in flight
\* or not, unless the serving task panics.
ShutdownWaiting == call.op \in ShutdownOps /\ call.pc \in {"lock", "scan", "join"}

ShutdownOver ==
  \/ call.pc \in {"done", "panicked"}
  \/ entry # None /\ entry[1].state = "Panicked"

C2_ShutdownReturns == ShutdownWaiting ~> ShutdownOver

\* C3: a start call that returns Err has left the registry map as it was and
\* has spawned no serving task.
C3_FailedStartInsertsNothing ==
  (Done("start") /\ call.ret[1] = "Err")
    => (Handles(mock_servers) = call.pre /\ call.spawned = 0)

\* C4: when a shutdown returns true, the target's entry is no longer in the
\* map, its serving task has stopped, and the call removed the entry, then sent
\* the signal, then joined the task, in that order.
C4_TrueMeansRemovedThenSignalledThenJoined ==
  (ShutdownDone /\ call.ret = TRUE)
    => /\ call.id \in DOMAIN call.pre
       /\ call.id \notin Keys
       /\ entry # None /\ entry[1].id = call.id
       /\ entry[1].state = "Stopped"
       /\ call.events = <<"remove", "signal", "join">>

\* a shutdown returned true for a server that had served a request
C4_Witness ==
  /\ ShutdownDone /\ call.ret = TRUE
  /\ entry # None /\ entry[1].id = call.id /\ entry[1].matches # <<>>

\* C5: a shutdown for an id that is not registered, or for a port that no
\* registered server has, returns false, changes no entry and signals nothing.
UnknownTarget ==
  \/ call.op = "shutdown_mock_server_by_id" /\ call.id \notin DOMAIN call.pre
  \/ /\ call.op = "shutdown_mock_server_by_port"
     /\ \A k \in DOMAIN call.pre : call.pre[k].port # Some(call.port)

C5_UnknownTargetNoEffect ==
  (call.pc = "done" /\ UnknownTarget)
    => /\ call.ret = FALSE
       /\ Handles(mock_servers) = call.pre
       /\ call.events = <<>>
       /\ entry = None

\* C6: for every id, requested port and outcome of the bind (the one with no
\* port recorded included), the nonblocking start leaves the same map, spawns
\* the same and returns the same as the blocking start.
C6_NonblockingSameAsBlocking ==
  \A id \in Ids, port \in ReqPorts :
    \A o \in MockServerNew(port) :
      start_mock_server_nonblocking(id, port, o) = start_mock_server(id, port, o)

\* C7: when a start with requested port 0 returns Ok, the returned port is
\* greater than 0, is the port stored in the started server's state, and a
\* listener is bound on it.
C7_PortZeroReturnsResolvedPort ==
  (Done("start") /\ call.port = 0 /\ call.ret[1] = "Ok")
    => /\ call.ret[2] > 0
       /\ mock_servers[call.id].port = Some(call.ret[2])
       /\ mock_servers[call.id].addr = call.ret[2]
       /\ call.ret[2] \in BoundPorts

\* C8: a query against a registered server A takes and waits for no lock
\* other than that of A.
QueryTarget(A) ==
  \/ call.op = "find_mock_server_by_id" /\ call.id = A
  \/ call.op = "find_mock_server_by_port_mut" /\ mock_servers[A].port = Some(call.port)

\* the entries whose lock the running query has taken so far or waits for
LocksTouched ==
  CASE call.op = "find_mock_server_by_id" -> {call.id} \cap Keys
    [] call.op = "find_mock_server_by_port_mut" -> {iter[n] : n \in 1..call.i}
    [] OTHER -> {}

C8_QueryTouchesOnlyItsTarget ==
  \A A \in Keys : QueryTarget(A) => LocksTouched \subseteq {A}

\* C9: no step of a shutdown call touches the entry of another server: every
\* entry other than the one the call removes stays in the map with the same
\* state, signal, match log and counters.
ShutdownStep == call' # call /\ call'.op \in ShutdownOps

OthersUntouched ==
  \A k \in Keys :
    \/ k \in DOMAIN mock_servers' /\ mock_servers'[k] = mock_servers[k]
    \/ /\ k \notin DOMAIN mock_servers'
       /\ call'.id = k
       /\ entry' # None /\ entry'[1].id = k

C9_ShutdownLeavesOthers == [][ShutdownStep => OthersUntouched]_vars

\* the shutdown of a returned true while b, which has served a request, is
\* registered and running
C9_Witness ==
  /\ ShutdownDone /\ call.ret = TRUE /\ call.id = "a"
  /\ "b" \in Keys
  /\ mock_servers["b"].state = "Running" /\ ~mock_servers["b"].signal
  /\ mock_servers["b"].matches # <<>>

\* C10: map_mock_servers returns one result per registered server, in
\* ascending order of id, whatever the order in which the servers were started.
ResultIds == [n \in DOMAIN call.ret |-> call.ret[n].id]

C10_ForEachAscendingById ==
  Done("map_mock_servers")
    => /\ Len(call.ret) = Cardinality(Keys)
       /\ Len(call.ret) = Len(started)
       /\ {started[n] : n \in DOMAIN started} = Keys
       /\ {ResultIds[n] : n \in DOMAIN call.ret} = Keys
       /\ \A m, n \in DOMAIN call.ret : m < n => Rank(ResultIds[m]) < Rank(ResultIds[n])

\* servers started in the order b, a; the results come in the order a, b
C10_Witness ==
  /\ Done("map_mock_servers")
  /\ started = <<"b", "a">>
  /\ ResultIds = <<"a", "b">>

\* C11: a query (find_mock_server_by_id, find_mock_server_by_port_mut,
\* map_mock_servers) leaves the map with the same ids and the same handles,
\* spawns, signals and joins nothing; by id it returns None exactly when the id
\* is not registered, by port exactly when no registered server has that
\* resolved port.
QueryOps == {"find_mock_server_by_id", "find_mock_server_by_port_mut", "map_mock_servers"}

QueryDone == call.pc = "done" /\ call.op \in QueryOps

C11_QueriesKeepMapAndAnswerNoneWhenUnknown ==
  QueryDone
    => /\ Handles(mock_servers) = call.pre
       /\ call.spawned = 0 /\ call.events = <<>> /\ entry = None
       /\ call.op = "find_mock_server_by_id"
            => (call.ret = None <=> call.id \notin Keys)
       /\ call.op = "find_mock_server_by_port_mut"
            => (call.ret = None <=> \A k \in Keys : mock_servers[k].port # Some(call.port))

\* C12: while no request has been delivered, a query for the matches of a
\* registered server whose task is running returns at once, without waiting
\* for a lock, and returns Some of the empty log.
QueryForMatchesOfRunning ==
  /\ Idle
  /\ arrivals = 0
  /\ \/ /\ call'.op = "find_mock_server_by_id"
        /\ call'.id \in Keys /\ mock_servers[call'.id].state = "Running"
     \/ /\ call'.op = "find_mock_server_by_port_mut"
        /\ \E k \in Keys : /\ mock_servers[k].state = "Running"
                           /\ mock_servers[k].port = Some(call'.port)

C12_QueryAfterStartDoesNotBlock ==
  [][QueryForMatchesOfRunning
       => /\ call'.pc = "done"
          /\ call'.ret \in {Some(<<>>), Some([id |-> call'.id, matches |-> <<>>])}]_vars

\* find_mock_server_by_port_mut for the port of a running server has returned
\* the empty log, no request having been delivered
C12_Witness ==
  /\ Done("find_mock_server_by_port_mut")
  /\ arrivals = 0
  /\ call.port > 0
  /\ call.id \in Keys /\ mock_servers[call.id].state = "Running"
  /\ mock_servers[call.id].port = Some(call.port)
  /\ call.ret = Some(<<>>)

\* C13: when a registered server has the resolved port p, the step in which
\* shutdown_mock_server_by_port(p) finds it has the return value and the effect
\* on the map, on the removed entry and on the order of remove, signal and join
\* that shutdown_mock_server_by_id has for the key of that server, and so has
\* the step that ends its join.
HasPort(k, p) == mock_servers[k].port = Some(p)

\* the key of the entry the scan finds: the first in key order with port p
FirstWithPort(p) ==
  CHOOSE k \in Keys :
    HasPort(k, p) /\ \A j \in Keys : HasPort(j, p) => Rank(k) <= Rank(j)

ByPortFinds ==
  /\ call'.op = "shutdown_mock_server_by_port"
  /\ call.pc \in {"idle", "scan"}
  /\ call'.pc # "scan"
  /\ \E k \in Keys : HasPort(k, call'.port)

ByPortJoins ==
  /\ call.op = "shutdown_mock_server_by_port" /\ call.pc = "join"
  /\ \E k \in DOMAIN call.pre : call.pre[k].port = Some(call.port)
  /\ call' # call

SameEffect(c, r) ==
  /\ mock_servers' = r.map
  /\ entry' = r.entry
  /\ c.id = r.call.id
  /\ c.pc = r.call.pc /\ c.ret = r.call.ret /\ c.events = r.call.events

C13_ByPortBehavesAsById ==
  [][/\ ByPortFinds =>
          SameEffect(call', shutdown_mock_server_by_id(
             Begin("shutdown_mock_server_by_id", FirstWithPort(call'.port), 0, "none")))
     /\ ByPortJoins =>
          /\ entry[1].id = call.id /\ entry[1].port = Some(call.port)
          /\ SameEffect(call',
               [map |-> mock_servers,
                entry |-> Some([entry[1] EXCEPT !.lock = "free"]),
                call |-> JoinEntry([call EXCEPT !.op = "shutdown_mock_server_by_id"],
                                   entry[1])])]_vars

\* shutdown_mock_server_by_port has passed a, removed b whose port matched,
\* and returned true
C13_Witness ==
  /\ Done("shutdown_mock_server_by_port") /\ call.ret = TRUE
  /\ call.id = "b" /\ call.i = 2
  /\ "a" \in Keys
  /\ entry # None /\ entry[1].id = "b" /\ entry[1].port = Some(call.port)

\* C14: a start for an id that is registered with a running task is not
\* refused: it puts the new server under the id without a signal to, or a join
\* of, the previous task, which runs on with its port bound and with no map
\* entry left for it; and no registry call ever ends such a task.
StartReplaces ==
  /\ Idle
  /\ call'.op = "start" /\ call'.spawned = 1
  /\ call'.id \in Keys /\ Alive(mock_servers[call'.id])

PreviousTaskOrphaned ==
  LET id == call'.id
      old == mock_servers[id]
  IN  /\ call'.pc = "done" /\ call'.events = <<>> /\ entry' = None
      /\ DOMAIN mock_servers' = Keys
      /\ mock_servers'[id] = NewServer(id, [port |-> mock_servers'[id].port,
                                            addr |-> mock_servers'[id].addr])
      /\ mock_servers'[id].addr # old.addr
      /\ \A k \in Keys \ {id} : mock_servers'[k] = mock_servers[k]
      /\ old.addr \in detached'
      /\ old.addr \in BoundPorts'

C14_StartOverRegisteredIdOrphans ==
  [][/\ StartReplaces => PreviousTaskOrphaned
     /\ call' # call => detached \subseteq detached']_vars

\* a start for the registered id a has returned Ok; the task a had before is
\* detached and its port is still bound
C14_Witness ==
  /\ Done("start") /\ call.ret[1] = "Ok"
  /\ call.id \in DOMAIN call.pre
  /\ call.pre[call.id].addr \in detached
  /\ call.pre[call.id].addr \in BoundPorts
  /\ mock_servers[call.id].addr # call.pre[call.id].addr

\* C15: the calling thread holds the guard of at most one server, and of none
\* when it waits for a lock or is between two calls: in the scans and in the
\* loop of map_mock_servers the guard of one entry is gone before the next
\* lock is asked for.
LocksHeld == {s \in Slots : Server(s).lock = "registry"}

C15_AtMostOneLockHeld ==
  /\ Cardinality(LocksHeld) <= 1
  /\ call.pc \in {"idle", "done", "lock", "scan", "apply", "each"} => LocksHeld = {}

\* map_mock_servers has been through the first entry and waits for the lock of
\* the second
C15_Witness ==
  /\ call.op = "map_mock_servers" /\ call.pc = "each" /\ call.i = 2
  /\ Len(call.ret) = 1
  /\ mock_servers[iter[2]].lock = "handler"
  /\ LocksHeld = {}

\* C16: the match log of a server holds the records of its requests in the
\* order in which the requests arrived: of two recorded requests the one that
\* arrived first comes first.
InArrivalOrder(log) == \A m, n \in DOMAIN log : m < n => log[m] < log[n]

Lifecycle == {<<"Running", "ShuttingDown">>, <<"ShuttingDown", "Stopped">>}

\* the pairs (before, after) of the servers that exist before and after a step
Moves ==
  {<<mock_servers[k], mock_servers'[k]>> :
     k \in {x \in Keys \cap DOMAIN mock_servers' :
              ~(Idle /\ call'.op = "start" /\ call'.spawned = 1 /\ call'.id = x)}}
  \cup (IF entry # None /\ entry' # None THEN {<<entry[1], entry'[1]>>} ELSE {})
  \cup (IF entry = None /\ entry' # None
        THEN {<<mock_servers[entry'[1].id], entry'[1]>>} ELSE {})

LifecycleStep(old, new) ==
  /\ old.state # new.state =>
       \/ /\ <<old.state, new.state>> \in Lifecycle
          /\ new.state = "ShuttingDown" => old.signal
          /\ new.state = "Stopped" => old.inflight = {}
       \/ Alive(old) /\ new.state = "Panicked"
  /\ (~old.signal /\ new.signal) => (Idle /\ call'.op \in ShutdownOps) \/ call.op \in ShutdownOps
  /\ old.state = "ShuttingDown" => new.inflight \subseteq old.inflight

C18_NoOperationAbortsCaller ==
  /\ call.pc # "panicked"
  /\ ShutdownDone => call.ret \in BOOLEAN

\* C19: the resolved port of a server, once in its state, is the same after
\* every step for as long as the server is there: no start of another id, no
\* shutdown of another server, no query, no map_mock_servers and no step of a
\* task changes it.
C19_ResolvedPortNeverChanges ==
  [][\A m \in Moves : m[1].port # None => m[2].port = m[1].port]_vars

\* a start for another id has returned Ok (so has a query by port), and a server
\* that was registered with a resolved port before the call has that port still
C19_Witness ==
  /\ \/ Done("start") /\ call.ret[1] = "Ok"
     \/ Done("find_mock_server_by_port_mut") /\ call.ret # None
  /\ \E k \in (DOMAIN call.pre \cap Keys) \ {call.id} :
       /\ call.pre[k].port # None
       /\ mock_servers[k].port = call.pre[k].port
       /\ mock_servers[k].matches # <<>>

\* C20: while the caller of a shutdown waits in the join for the task of the
\* server it shuts down, it holds the lock of no server: the guard taken to
\* send the signal is gone before the join begins.
C20_NoLockHeldInJoin == call.pc = "join" => LocksHeld = {}

\* C21: the server that shutdown_mock_server_by_port(p) or
\* find_mock_server_by_port_mut(p, f) selects has a resolved port, and that port
\* is p; a server with no port in its state is selected for no p, 0 included.
BySelected ==
  \/ call.op = "shutdown_mock_server_by_port" /\ call.events # <<>>
  \/ Done("find_mock_server_by_port_mut") /\ call.ret # None

C21_ByPortSelectsResolvedPortOnly ==
  BySelected => /\ call.id \in DOMAIN call.pre
                /\ call.pre[call.id].port = Some(call.port)

\* C22: every entry of the map is filed under the id that its server's state
\* holds, and so is the entry a shutdown has taken out; the entry that
\* shutdown_mock_server_by_port removes is the one whose port matched in the
\* scan (the first such in key order), and every other entry stays.
KeyIsId == \A k \in Keys : mock_servers[k].id = k

ByPortRemoved == call.op = "shutdown_mock_server_by_port" /\ call.events # <<>>

C22_KeyIsIdOfItsServer ==
  /\ KeyIsId
  /\ entry # None => entry[1].id = call.id
  /\ ByPortRemoved
       => /\ call.id \in DOMAIN call.pre
          /\ PortMatches(call.pre[call.id], call.port)
          /\ \A k \in DOMAIN call.pre :
               Rank(k) < Rank(call.id) => ~PortMatches(call.pre[k], call.port)
          /\ Keys = DOMAIN call.pre \ {call.id}
          /\ entry # None /\ Handles(<<entry[1]>>)[1] = call.pre[call.id]

\* shutdown_mock_server_by_port has returned true for the port of the second
\* of two registered servers: that one is gone, the first is still there
C22_Witness ==
  /\ Done("shutdown_mock_server_by_port") /\ call.ret = TRUE
  /\ DOMAIN call.pre = Ids
  /\ call.id = IdOrder[Len(IdOrder)]
  /\ Keys = Ids \ {call.id}
  /\ call.pre[call.id].port = Some(call.port)
====
